---- MODULE Spec2Model ----
(***************************************************************************)
(* GemHandler (secsgem/gem/handler.py): the GEM communication state       *)
(* machine, its two handshake timers, the inbound packet dispatch and      *)
(* waitfor_communicating.                                                  *)
(*                                                                         *)
(* Threads: the transport thread (select, packets, connection closed),     *)
(* the application thread (enable, disable), one thread per                *)
(* threading.Timer, one thread per dispatched callback, and the callers    *)
(* of waitfor_communicating.                                               *)
(***************************************************************************)
EXTENDS Integers, Sequences, FiniteSets, TLC

\* ------------------------------------------------------------- bounds
\* concurrent callers of waitfor_communicating
MaxWaiters == 2
\* timer threads of one role whose interval elapsed and whose callback has
\* not run yet
MaxPendingCallbacks == 1

Waiters == 1..MaxWaiters

\* ------------------------------------------------------------- inputs
\* system bytes (transaction identifiers) of inbound packets
SystemIds == {7, 9}
Streams == {1, 2}
Functions == {1, 13, 14}
\* values an overridden on_commack_requested may return (0 accept, 1 deny)
CommackCodes == {0, 1}

\* commack: the COMMACK item of an S1F14 body; -1 for any other packet
Packets ==
  [stream : {1}, function : {14}, system : SystemIds,
   requireResponse : BOOLEAN, decodable : BOOLEAN, commack : CommackCodes]
    \cup [stream : Streams \ {1}, function : {14}, system : SystemIds,
          requireResponse : BOOLEAN, decodable : BOOLEAN, commack : {-1}]
    \cup [stream : Streams, function : Functions \ {14}, system : SystemIds,
          requireResponse : BOOLEAN, decodable : BOOLEAN, commack : {-1}]

\* --------------------------------------------------- the state machine
StateNames ==
  {"DISABLED", "ENABLED", "NOT_COMMUNICATING", "COMMUNICATING",
   "EQUIPMENT_INITIATED_CONNECT", "WAIT_DELAY", "WAIT_CRA",
   "HOST_INITIATED_CONNECT", "WAIT_CR_FROM_HOST"}

InitialState == "DISABLED"

\* 'events': name -> (sources, destination)
Events ==
  [enable |-> [src |-> {"DISABLED"}, dst |-> "ENABLED"],
   disable |-> [src |-> {"ENABLED", "NOT_COMMUNICATING", "COMMUNICATING",
                         "EQUIPMENT_INITIATED_CONNECT", "WAIT_DELAY",
                         "WAIT_CRA", "HOST_INITIATED_CONNECT",
                         "WAIT_CR_FROM_HOST"},
                dst |-> "DISABLED"],
   select |-> [src |-> {"NOT_COMMUNICATING"},
               dst |-> "EQUIPMENT_INITIATED_CONNECT"],
   communicationreqfail |-> [src |-> {"WAIT_CRA"}, dst |-> "WAIT_DELAY"],
   delayexpired |-> [src |-> {"WAIT_DELAY"}, dst |-> "WAIT_CRA"],
   messagereceived |-> [src |-> {"WAIT_DELAY"}, dst |-> "WAIT_CRA"],
   s1f14received |-> [src |-> {"WAIT_CRA"}, dst |-> "COMMUNICATING"],
   communicationfail |-> [src |-> {"COMMUNICATING"},
                          dst |-> "NOT_COMMUNICATING"],
   s1f13received |-> [src |-> {"WAIT_CR_FROM_HOST", "WAIT_DELAY", "WAIT_CRA"},
                      dst |-> "COMMUNICATING"]]

\* faulty variant: the autoforward out of EQUIPMENT_INITIATED_CONNECT is missing
AutoforwardNoConnect ==
  [ENABLED |-> "NOT_COMMUNICATING",
   HOST_INITIATED_CONNECT |-> "WAIT_CR_FROM_HOST"]

\* faulty variant: the autoforward out of ENABLED is missing
AutoforwardNoEnabled ==
  [EQUIPMENT_INITIATED_CONNECT |-> "WAIT_CRA",
   HOST_INITIATED_CONNECT |-> "WAIT_CR_FROM_HOST"]

\* 'autoforward': source -> destination
Autoforward ==
  [ENABLED |-> "NOT_COMMUNICATING",
   EQUIPMENT_INITIATED_CONNECT |-> "WAIT_CRA",
   HOST_INITIATED_CONNECT |-> "WAIT_CR_FROM_HOST"]

\* self.callbacks after __init__: "s1f1" and "s1f13"
RegisteredCallbacks == {<<1, 1>>, <<1, 13>>}

VARIABLES
  state,          \* communicationState.current
  isHost,         \* self.isHost
  connection,     \* TRUE after connection.enable(), FALSE after disable()
  waitCRATimer,   \* the Timer self.waitCRATimer refers to
  commDelayTimer, \* the Timer self.commDelayTimer refers to
  craCallbacks,   \* _on_wait_cra_timeout calls due and not yet run
  delayCallbacks, \* _on_wait_comm_delay_timeout calls due and not yet run
  rxPc,           \* where the transport thread is
  relIdx,         \* index of the iteration over waitEventList
  waitEventList,  \* self.waitEventList (an event is named by its caller)
  eventSet,       \* the events whose flag is set
  wpc,            \* where each caller of waitfor_communicating is
  wres,           \* each caller's local "result" of event.wait
  returned,       \* <<caller, value>> when the last step was a return of
                  \* waitfor_communicating, else <<>>
  threads,        \* callback threads started and not finished
  out             \* messages sent and events fired by the last step

vars ==
  <<state, isHost, connection, waitCRATimer, commDelayTimer, craCallbacks,
    delayCallbacks, rxPc, relIdx, waitEventList, eventSet, wpc, wres,
    returned, threads, out>>

\* ------------------------------------------------------------ messages
Msg(kind, s, f, sys, commack, data) ==
  [kind |-> kind, stream |-> s, function |-> f, system |-> sys,
   commack |-> commack, data |-> data]

\* system 0: the system bytes are assigned when the message is sent;
\* commack -1: the message has no COMMACK item
\* send_stream_function(stream_function(1, 13)(...)) in _on_state_wait_cra
S1F13Request(host) ==
  Msg("request", 1, 13, 0, -1,
      IF host THEN "none" ELSE "MDLN_SOFTREV")

\* send_response(stream_function(1, 14)({COMMACK, DATA}), system)
S1F14Response(host, commack, sys) ==
  Msg("response", 1, 14, sys, commack, IF host THEN "empty" ELSE "MDLN_SOFTREV")

\* faulty variant: the S9F5 reply does not carry the packet's system bytes
S9F5ResponseNoSystem(p) ==
  Msg("response", 9, 5, 0, -1, "MHEAD")

\* send_response(SecsS09F05(packet.header.encode()), packet.header.system)
S9F5Response(p) ==
  Msg("response", 9, 5, p.system, -1, "MHEAD")

\* fire_event("handler_communicating", ...)
HandlerCommunicatingEvent ==
  Msg("event", 0, 0, 0, -1, "handler_communicating")

\* an event fired outside its source states is refused and reported
EventRefused(ev) == Msg("refused", 0, 0, 0, -1, ev)

\* callback_index = "s" + str(stream) + "f" + str(function)
CallbackIndex(p) == <<p.stream, p.function>>

\* ------------------------------------------------------------- timers
\* threading.Timer.cancel(): stops a timer that is still waiting; a no-op
\* on one that is finished, canceled or already past its interval
TimerCancel(t) == IF t = "live" THEN "cancelled" ELSE t

\* --------------------------------------------- state callbacks (Fysom)
\* the part of the handler a transition's callbacks work on
Machine ==
  [state |-> state, cra |-> waitCRATimer, delay |-> commDelayTimer,
   out |-> <<>>, release |-> FALSE]

\* faulty variant: leaving WAIT_CRA does not cancel waitCRATimer
OnStateLeaveWaitCraNoCancel(m) == m

\* _on_state_leave_wait_cra
OnStateLeaveWaitCra(m) ==
  [m EXCEPT !.cra = IF m.cra # "none" THEN TimerCancel(m.cra) ELSE m.cra]

\* faulty variant: leaving WAIT_DELAY does not cancel commDelayTimer
OnStateLeaveWaitDelayNoCancel(m) == m

\* _on_state_leave_wait_delay
OnStateLeaveWaitDelay(m) ==
  [m EXCEPT !.delay = IF m.delay # "none" THEN TimerCancel(m.delay) ELSE m.delay]

\* faulty variant: entering WAIT_CRA starts the timer and sends no S1F13
OnStateWaitCraNoRequest(m) == [m EXCEPT !.cra = "live"]

\* _on_state_wait_cra
OnStateWaitCra(m) ==
  [m EXCEPT !.cra = "live", !.out = Append(m.out, S1F13Request(isHost))]

\* _on_state_wait_delay
OnStateWaitDelay(m) == [m EXCEPT !.delay = "live"]

\* _on_state_communicating: fires the event, then starts the loop over
\* waitEventList
OnStateCommunicating(m) ==
  [m EXCEPT !.out = Append(m.out, HandlerCommunicatingEvent),
            !.release = TRUE]

\* 'callbacks': onleave<STATE>
LeaveState(m, s) ==
  CASE s = "WAIT_CRA" -> OnStateLeaveWaitCra(m)
    [] s = "WAIT_DELAY" -> OnStateLeaveWaitDelay(m)
    [] OTHER -> m

\* 'callbacks': on<STATE>
EnterState(m, s) ==
  CASE s = "WAIT_CRA" -> OnStateWaitCra(m)
    [] s = "WAIT_DELAY" -> OnStateWaitDelay(m)
    [] s = "COMMUNICATING" -> OnStateCommunicating(m)
    [] OTHER -> m

\* one change of state with its exit and entry callbacks
ChangeState(m, dst) ==
  EnterState([LeaveState(m, m.state) EXCEPT !.state = dst], dst)

\* Fysom event: refused outside its sources; otherwise leave, commit,
\* enter, and follow the autoforward of a transient destination
FireEvent(m, ev) ==
  IF m.state \notin Events[ev].src
    THEN [m EXCEPT !.out = Append(m.out, EventRefused(ev))]
    ELSE LET m1 == ChangeState(m, Events[ev].dst)
         IN IF m1.state \in DOMAIN Autoforward
              THEN ChangeState(m1, Autoforward[m1.state])
              ELSE m1

\* the transition is serialized: no event fires while the entry action of
\* COMMUNICATING is still running
InTransition == rxPc = "release"

\* commit a transition made by a thread other than the transport thread
Commit(m) ==
  /\ state' = m.state
  /\ waitCRATimer' = m.cra
  /\ commDelayTimer' = m.delay
  /\ out' = m.out

\* commit a transition made by the transport thread; entering
\* COMMUNICATING starts the iteration over waitEventList
CommitRx(m) ==
  /\ Commit(m)
  /\ IF m.release /\ waitEventList # <<>>
       THEN rxPc' = "release" /\ relIdx' = 1
       ELSE rxPc' = "idle" /\ relIdx' = 0

TypeOK ==
  /\ state \in StateNames
  /\ isHost \in BOOLEAN
  /\ connection \in BOOLEAN
  /\ waitCRATimer \in {"none", "live", "cancelled", "fired"}
  /\ commDelayTimer \in {"none", "live", "cancelled", "fired"}
  /\ craCallbacks \in 0..MaxPendingCallbacks
  /\ delayCallbacks \in 0..MaxPendingCallbacks
  /\ rxPc \in {"idle", "fire13", "fire14", "release"}
  /\ relIdx \in 0..(MaxWaiters + 1)
  /\ waitEventList \in Seq(Waiters)
  /\ eventSet \subseteq Waiters
  /\ wpc \in [Waiters -> {"idle", "check", "waiting", "remove"}]
  /\ wres \in [Waiters -> {"none", "True", "False"}]
  /\ returned \in {<<>>} \cup (Waiters \X {"True", "False"})
  /\ threads \subseteq [cb : RegisteredCallbacks, system : SystemIds]

Init ==
  /\ state = InitialState
  /\ isHost \in BOOLEAN
  /\ connection = FALSE
  /\ waitCRATimer = "none"
  /\ commDelayTimer = "none"
  /\ craCallbacks = 0
  /\ delayCallbacks = 0
  /\ rxPc = "idle"
  /\ relIdx = 0
  /\ waitEventList = <<>>
  /\ eventSet = {}
  /\ wpc = [w \in Waiters |-> "idle"]
  /\ wres = [w \in Waiters |-> "none"]
  /\ returned = <<>>
  /\ threads = {}
  /\ out = <<>>

\* ------------------------------------------------ application thread
\* enable()
Enable ==
  /\ ~InTransition
  /\ connection' = TRUE
  /\ Commit(FireEvent(Machine, "enable"))
  /\ returned' = <<>>
  /\ UNCHANGED <<isHost, craCallbacks, delayCallbacks, rxPc, relIdx,
                 waitEventList, eventSet, wpc, wres, threads>>

\* disable()
Disable ==
  /\ ~InTransition
  /\ connection' = FALSE
  /\ Commit(FireEvent(Machine, "disable"))
  /\ returned' = <<>>
  /\ UNCHANGED <<isHost, craCallbacks, delayCallbacks, rxPc, relIdx,
                 waitEventList, eventSet, wpc, wres, threads>>

\* -------------------------------------------------- transport thread
\* _on_hsms_select
OnHsmsSelect ==
  /\ rxPc = "idle"
  /\ CommitRx(FireEvent(Machine, "select"))
  /\ returned' = <<>>
  /\ UNCHANGED <<isHost, connection, craCallbacks, delayCallbacks,
                 waitEventList, eventSet, wpc, wres, threads>>

\* faulty variant: the handler sets NOT_COMMUNICATING itself, whatever the
\* state
OnConnectionClosedForced ==
  /\ rxPc = "idle"
  /\ CommitRx(ChangeState(Machine, "NOT_COMMUNICATING"))
  /\ returned' = <<>>
  /\ UNCHANGED <<isHost, connection, craCallbacks, delayCallbacks,
                 waitEventList, eventSet, wpc, wres, threads>>

\* on_connection_closed
OnConnectionClosed ==
  /\ rxPc = "idle"
  /\ CommitRx(FireEvent(Machine, "communicationfail"))
  /\ returned' = <<>>
  /\ UNCHANGED <<isHost, connection, craCallbacks, delayCallbacks,
                 waitEventList, eventSet, wpc, wres, threads>>

\* faulty variant: the S1F14 reply never carries MDLN and SOFTREV
ReceiveInWaitCraHostReply(p) ==
  IF p.stream = 1 /\ p.function = 13
    THEN /\ \E c \in CommackCodes : out' = <<S1F14Response(TRUE, c, p.system)>>
         /\ rxPc' = "fire13"
         /\ UNCHANGED threads
    ELSE IF p.stream = 1 /\ p.function = 14
      THEN rxPc' = "fire14" /\ out' = <<>> /\ UNCHANGED threads
      ELSE UNCHANGED <<rxPc, threads>> /\ out' = <<>>

\* _on_hsms_packet_received, branch WAIT_CRA: the reply to S1F13 is sent
\* and the event is fired next; for S1F14 the event is fired next
ReceiveInWaitCra(p) ==
  IF p.stream = 1 /\ p.function = 13
    THEN /\ \E c \in CommackCodes : out' = <<S1F14Response(isHost, c, p.system)>>
         /\ rxPc' = "fire13"
         /\ UNCHANGED threads
    ELSE IF p.stream = 1 /\ p.function = 14
      THEN rxPc' = "fire14" /\ out' = <<>> /\ UNCHANGED threads
      ELSE UNCHANGED <<rxPc, threads>> /\ out' = <<>>

\* faulty variant: an S1F13 in WAIT_DELAY fires s1f13received, as the
\* event table would allow
ReceiveInWaitDelayHandshake(p) ==
  IF p.stream = 1 /\ p.function = 13
    THEN rxPc' = "fire13" /\ out' = <<>> /\ UNCHANGED threads
    ELSE UNCHANGED <<rxPc, threads>> /\ out' = <<>>

\* _on_hsms_packet_received, branch WAIT_DELAY: pass
ReceiveInWaitDelay(p) ==
  UNCHANGED <<rxPc, threads>> /\ out' = <<>>

\* faulty variant: the callback runs on the transport thread
ReceiveInCommunicatingInline(p) ==
  IF CallbackIndex(p) \in RegisteredCallbacks
    THEN /\ threads' = threads \cup {[cb |-> CallbackIndex(p), system |-> p.system]}
         /\ out' = <<>>
         /\ rxPc' = "callback"
    ELSE /\ out' = IF p.requireResponse THEN <<S9F5Response(p)>> ELSE <<>>
         /\ UNCHANGED <<rxPc, threads>>

\* _on_hsms_packet_received, branch COMMUNICATING: a registered callback
\* runs in a thread of its own; an unregistered function is answered with
\* S9F5 when the packet requires a response
ReceiveInCommunicating(p) ==
  IF CallbackIndex(p) \in RegisteredCallbacks
    THEN /\ threads' = threads \cup {[cb |-> CallbackIndex(p), system |-> p.system]}
         /\ out' = <<>>
         /\ UNCHANGED rxPc
    ELSE /\ out' = IF p.requireResponse THEN <<S9F5Response(p)>> ELSE <<>>
         /\ UNCHANGED <<rxPc, threads>>

\* faulty variant: outside the handshake states every packet is dispatched
\* as in COMMUNICATING
OnHsmsPacketReceivedAnyState(p) ==
  /\ rxPc = "idle"
  /\ CASE state = "WAIT_CRA" -> ReceiveInWaitCra(p)
       [] state = "WAIT_DELAY" -> ReceiveInWaitDelay(p)
       [] OTHER -> ReceiveInCommunicating(p)
  /\ returned' = <<>>
  /\ UNCHANGED <<state, isHost, connection, waitCRATimer, commDelayTimer,
                 craCallbacks, delayCallbacks, relIdx, waitEventList,
                 eventSet, wpc, wres>>

\* _on_hsms_packet_received up to the first event it fires
OnHsmsPacketReceived(p) ==
  /\ rxPc = "idle"
  /\ CASE state = "WAIT_CRA" -> ReceiveInWaitCra(p)
       [] state = "WAIT_DELAY" -> ReceiveInWaitDelay(p)
       [] state = "COMMUNICATING" -> ReceiveInCommunicating(p)
       [] OTHER -> UNCHANGED <<rxPc, threads>> /\ out' = <<>>
  /\ returned' = <<>>
  /\ UNCHANGED <<state, isHost, connection, waitCRATimer, commDelayTimer,
                 craCallbacks, delayCallbacks, relIdx, waitEventList,
                 eventSet, wpc, wres>>

\* communicationState.s1f13received() in _on_hsms_packet_received
FireS1F13Received ==
  /\ rxPc = "fire13"
  /\ CommitRx(FireEvent(Machine, "s1f13received"))
  /\ returned' = <<>>
  /\ UNCHANGED <<isHost, connection, craCallbacks, delayCallbacks,
                 waitEventList, eventSet, wpc, wres, threads>>

\* communicationState.s1f14received() in _on_hsms_packet_received
FireS1F14Received ==
  /\ rxPc = "fire14"
  /\ CommitRx(FireEvent(Machine, "s1f14received"))
  /\ returned' = <<>>
  /\ UNCHANGED <<isHost, connection, craCallbacks, delayCallbacks,
                 waitEventList, eventSet, wpc, wres, threads>>

\* one iteration of "for event in self.waitEventList: event.set()"; the
\* iteration ends when its index is past the end of the list
ReleaseStep ==
  /\ rxPc = "release"
  /\ IF relIdx <= Len(waitEventList)
       THEN /\ eventSet' = eventSet \cup {waitEventList[relIdx]}
            /\ relIdx' = relIdx + 1
            /\ UNCHANGED rxPc
       ELSE /\ rxPc' = "idle"
            /\ relIdx' = 0
            /\ UNCHANGED eventSet
  /\ out' = <<>>
  /\ returned' = <<>>
  /\ UNCHANGED <<state, isHost, connection, waitCRATimer, commDelayTimer,
                 craCallbacks, delayCallbacks, waitEventList, wpc, wres,
                 threads>>

\* ------------------------------------------------------ timer threads
\* the interval of waitCRATimer elapses before it is canceled
WaitCRATimerExpires ==
  /\ waitCRATimer = "live"
  /\ craCallbacks < MaxPendingCallbacks
  /\ waitCRATimer' = "fired"
  /\ craCallbacks' = craCallbacks + 1
  /\ out' = <<>>
  /\ returned' = <<>>
  /\ UNCHANGED <<state, isHost, connection, commDelayTimer, delayCallbacks,
                 rxPc, relIdx, waitEventList, eventSet, wpc, wres, threads>>

\* _on_wait_cra_timeout
OnWaitCraTimeout ==
  /\ craCallbacks > 0
  /\ ~InTransition
  /\ craCallbacks' = craCallbacks - 1
  /\ Commit(FireEvent(Machine, "communicationreqfail"))
  /\ returned' = <<>>
  /\ UNCHANGED <<isHost, connection, delayCallbacks, rxPc, relIdx,
                 waitEventList, eventSet, wpc, wres, threads>>

\* the interval of commDelayTimer elapses before it is canceled
CommDelayTimerExpires ==
  /\ commDelayTimer = "live"
  /\ delayCallbacks < MaxPendingCallbacks
  /\ commDelayTimer' = "fired"
  /\ delayCallbacks' = delayCallbacks + 1
  /\ out' = <<>>
  /\ returned' = <<>>
  /\ UNCHANGED <<state, isHost, connection, waitCRATimer, craCallbacks,
                 rxPc, relIdx, waitEventList, eventSet, wpc, wres, threads>>

\* _on_wait_comm_delay_timeout
OnWaitCommDelayTimeout ==
  /\ delayCallbacks > 0
  /\ ~InTransition
  /\ delayCallbacks' = delayCallbacks - 1
  /\ Commit(FireEvent(Machine, "delayexpired"))
  /\ returned' = <<>>
  /\ UNCHANGED <<isHost, connection, craCallbacks, rxPc, relIdx,
                 waitEventList, eventSet, wpc, wres, threads>>

\* --------------------------------------------------- callback threads
\* s01f01_handler
S01F01Handler(t) == <<Msg("response", 1, 2, t.system, -1, "none")>>

\* s01f13_handler
S01F13Handler(t, c) == <<Msg("response", 1, 14, t.system, c, "none")>>

\* the thread started for a callback runs its handler and ends
RunCallbacks(t) ==
  /\ t \in threads
  /\ threads' = threads \ {t}
  /\ IF t.cb = <<1, 1>>
       THEN out' = S01F01Handler(t)
       ELSE \E c \in CommackCodes : out' = S01F13Handler(t, c)
  /\ returned' = <<>>
  /\ UNCHANGED <<state, isHost, connection, waitCRATimer, commDelayTimer,
                 craCallbacks, delayCallbacks, rxPc, relIdx, waitEventList,
                 eventSet, wpc, wres>>

\* ---------------------------------------------- waitfor_communicating
\* list.remove(event)
ListRemove(list, w) ==
  IF \E i \in 1..Len(list) : list[i] = w
    THEN LET i == CHOOSE k \in 1..Len(list) :
                    list[k] = w /\ \A j \in 1..(k - 1) : list[j] # w
         IN SubSeq(list, 1, i - 1) \o SubSeq(list, i + 1, Len(list))
    ELSE list

\* event = threading.Event(); self.waitEventList.append(event)
WaitforCall(w) ==
  /\ wpc[w] = "idle"
  /\ waitEventList' = Append(waitEventList, w)
  /\ eventSet' = eventSet \ {w}
  /\ wpc' = [wpc EXCEPT ![w] = "check"]
  /\ wres' = [wres EXCEPT ![w] = "none"]
  /\ returned' = <<>>
  /\ out' = <<>>
  /\ UNCHANGED <<state, isHost, connection, waitCRATimer, commDelayTimer,
                 craCallbacks, delayCallbacks, rxPc, relIdx, threads>>

\* faulty variant: the early return leaves the event in waitEventList
WaitforCheckNoRemove(w) ==
  /\ wpc[w] = "check"
  /\ IF state = "COMMUNICATING"
       THEN /\ wpc' = [wpc EXCEPT ![w] = "idle"]
            /\ returned' = <<w, "True">>
       ELSE /\ wpc' = [wpc EXCEPT ![w] = "waiting"]
            /\ returned' = <<>>
  /\ out' = <<>>
  /\ UNCHANGED <<state, isHost, connection, waitCRATimer, commDelayTimer,
                 craCallbacks, delayCallbacks, rxPc, relIdx, waitEventList,
                 eventSet, wres, threads>>

\* if self.communicationState.isstate("COMMUNICATING"): remove, return True
WaitforCheck(w) ==
  /\ wpc[w] = "check"
  /\ IF state = "COMMUNICATING"
       THEN /\ waitEventList' = ListRemove(waitEventList, w)
            /\ eventSet' = eventSet \ {w}
            /\ wpc' = [wpc EXCEPT ![w] = "idle"]
            /\ returned' = <<w, "True">>
       ELSE /\ wpc' = [wpc EXCEPT ![w] = "waiting"]
            /\ returned' = <<>>
            /\ UNCHANGED <<waitEventList, eventSet>>
  /\ UNCHANGED wres
  /\ out' = <<>>
  /\ UNCHANGED <<state, isHost, connection, waitCRATimer, commDelayTimer,
                 craCallbacks, delayCallbacks, rxPc, relIdx, threads>>

\* result = event.wait(timeout): True once the event is set
WaitforWake(w) ==
  /\ wpc[w] = "waiting"
  /\ w \in eventSet
  /\ wpc' = [wpc EXCEPT ![w] = "remove"]
  /\ wres' = [wres EXCEPT ![w] = "True"]
  /\ returned' = <<>>
  /\ out' = <<>>
  /\ UNCHANGED <<state, isHost, connection, waitCRATimer, commDelayTimer,
                 craCallbacks, delayCallbacks, rxPc, relIdx, waitEventList,
                 eventSet, threads>>

\* result = event.wait(timeout): False when the timeout elapses first
WaitforTimeout(w) ==
  /\ wpc[w] = "waiting"
  /\ w \notin eventSet
  /\ wpc' = [wpc EXCEPT ![w] = "remove"]
  /\ wres' = [wres EXCEPT ![w] = "False"]
  /\ returned' = <<>>
  /\ out' = <<>>
  /\ UNCHANGED <<state, isHost, connection, waitCRATimer, commDelayTimer,
                 craCallbacks, delayCallbacks, rxPc, relIdx, waitEventList,
                 eventSet, threads>>

\* self.waitEventList.remove(event); return result
WaitforReturn(w) ==
  /\ wpc[w] = "remove"
  /\ waitEventList' = ListRemove(waitEventList, w)
  /\ eventSet' = eventSet \ {w}
  /\ wpc' = [wpc EXCEPT ![w] = "idle"]
  /\ wres' = [wres EXCEPT ![w] = "none"]
  /\ returned' = <<w, wres[w]>>
  /\ out' = <<>>
  /\ UNCHANGED <<state, isHost, connection, waitCRATimer, commDelayTimer,
                 craCallbacks, delayCallbacks, rxPc, relIdx, threads>>

\* ------------------------------------------------------ specification
Deliver == \E p \in Packets : OnHsmsPacketReceived(p)

Handlers == \E t \in threads : RunCallbacks(t)

Waitfor ==
  \E w \in Waiters :
    \/ WaitforCall(w)
    \/ WaitforCheck(w)
    \/ WaitforWake(w)
    \/ WaitforTimeout(w)
    \/ WaitforReturn(w)

Next ==
  \/ Enable
  \/ Disable
  \/ OnHsmsSelect
  \/ OnConnectionClosed
  \/ Deliver
  \/ FireS1F13Received
  \/ FireS1F14Received
  \/ ReleaseStep
  \/ WaitCRATimerExpires
  \/ OnWaitCraTimeout
  \/ CommDelayTimerExpires
  \/ OnWaitCommDelayTimeout
  \/ Handlers
  \/ Waitfor

\* the whole handler: every thread, every packet
Spec == Init /\ [][Next]_vars

\* the session without callers of waitfor_communicating
NextSession ==
  \/ Enable
  \/ Disable
  \/ OnHsmsSelect
  \/ OnConnectionClosed
  \/ Deliver
  \/ FireS1F13Received
  \/ FireS1F14Received
  \/ WaitCRATimerExpires
  \/ OnWaitCraTimeout
  \/ CommDelayTimerExpires
  \/ OnWaitCommDelayTimeout
  \/ Handlers

SpecSession == Init /\ [][NextSession]_vars

\* the handler as constructed: self.isHost = True
InitHost == Init /\ isHost

\* S1F14 as the peer sends it: decodable, no reply expected
AckPackets ==
  {p \in Packets :
     p.stream = 1 /\ p.function = 14 /\ p.decodable /\ ~p.requireResponse}

\* the session with callers of waitfor_communicating and a peer that
\* answers the handshake with S1F14 before waitCRATimer fires
NextGate ==
  \/ Enable
  \/ Disable
  \/ OnHsmsSelect
  \/ OnConnectionClosed
  \/ \E p \in AckPackets : OnHsmsPacketReceived(p)
  \/ FireS1F14Received
  \/ ReleaseStep
  \/ Waitfor

SpecGate == InitHost /\ [][NextGate]_vars

\* S1F13 and S1F14 as the peer sends them
HandshakePackets ==
  {p \in Packets : p.stream = 1 /\ p.function \in {13, 14} /\ p.decodable}

\* the session with callers of waitfor_communicating and a peer that
\* sends S1F13 or S1F14 (with any COMMACK) before waitCRATimer fires
NextHandshake ==
  \/ Enable
  \/ Disable
  \/ OnHsmsSelect
  \/ OnConnectionClosed
  \/ \E p \in HandshakePackets : OnHsmsPacketReceived(p)
  \/ FireS1F13Received
  \/ FireS1F14Received
  \/ ReleaseStep
  \/ Handlers
  \/ Waitfor

SpecHandshake == Init /\ [][NextHandshake]_vars

\* no peer message, no disable, no connection loss: the handshake is
\* retried by the timers alone
NextRetry ==
  \/ Enable
  \/ OnHsmsSelect
  \/ WaitCRATimerExpires
  \/ OnWaitCraTimeout
  \/ CommDelayTimerExpires
  \/ OnWaitCommDelayTimeout
  \/ \E w \in Waiters :
       \/ WaitforCall(w)
       \/ WaitforCheck(w)
       \/ WaitforTimeout(w)
       \/ WaitforReturn(w)

\* a started threading.Timer that is not canceled fires, and its thread
\* then runs the callback
FairRetrySpec ==
  /\ Init
  /\ [][NextRetry]_vars
  /\ WF_vars(WaitCRATimerExpires)
  /\ WF_vars(OnWaitCraTimeout)
  /\ WF_vars(CommDelayTimerExpires)
  /\ WF_vars(OnWaitCommDelayTimeout)

\* ---------------------------------------------------------------- claims
IsS1F13(p) == p.stream = 1 /\ p.function = 13

InList(w) == \E i \in 1..Len(waitEventList) : waitEventList[i] = w

\* C1: after enable, select and an S1F14 delivered in WAIT_CRA before the
\* timer fires, the state is COMMUNICATING and every caller that was
\* blocked in waitfor_communicating has been released (so it returns
\* True): once the entry action of COMMUNICATING has run to its end, no
\* caller is still blocked on an event that is not set.
C1Claim ==
  (state = "COMMUNICATING" /\ rxPc = "idle")
    => \A w \in Waiters : wpc[w] = "waiting" => w \in eventSet

\* C2: a waitCRATimer expiry in WAIT_CRA leads to WAIT_DELAY and a
\* commDelayTimer expiry in WAIT_DELAY leads back to WAIT_CRA; every entry
\* into WAIT_CRA sends exactly one S1F13 and starts a new waitCRATimer;
\* with no peer message, no disable and no connection loss the two states
\* alternate forever and no other state is entered.
C2Theorem ==
  /\ [][/\ (OnWaitCraTimeout /\ state = "WAIT_CRA")
             => (state' = "WAIT_DELAY" /\ commDelayTimer' = "live")
        /\ (OnWaitCommDelayTimeout /\ state = "WAIT_DELAY")
             => state' = "WAIT_CRA"
        /\ (state # "WAIT_CRA" /\ state' = "WAIT_CRA")
             => (out' = <<S1F13Request(isHost)>> /\ waitCRATimer' = "live")
        /\ state \in {"WAIT_CRA", "WAIT_DELAY"}
             => state' \in {"WAIT_CRA", "WAIT_DELAY"}]_vars
  /\ (state = "WAIT_CRA") ~> (state = "WAIT_DELAY")
  /\ (state = "WAIT_DELAY") ~> (state = "WAIT_CRA")

\* C2 witness: WAIT_CRA entered again after the delay expired, with the
\* request sent and a new timer started
C2Witness ==
  /\ state = "WAIT_CRA"
  /\ commDelayTimer = "fired"
  /\ waitCRATimer = "live"
  /\ out = <<S1F13Request(isHost)>>

\* C3: an S1F13 delivered while the state is WAIT_CRA, WAIT_DELAY or
\* WAIT_CR_FROM_HOST leaves the state COMMUNICATING with the timer of the
\* state that was left canceled.
C3Claim ==
  [][/\ \A p \in Packets :
          (/\ IsS1F13(p)
           /\ state \in {"WAIT_DELAY", "WAIT_CR_FROM_HOST"}
           /\ OnHsmsPacketReceived(p))
            => (state' = "COMMUNICATING" /\ commDelayTimer' # "live")
     /\ (/\ rxPc = "fire13"
         /\ rxPc' # "fire13"
         /\ state \in {"WAIT_CRA", "WAIT_DELAY", "WAIT_CR_FROM_HOST"})
          => /\ state' = "COMMUNICATING"
             /\ waitCRATimer' # "live"
             /\ commDelayTimer' # "live"]_vars

\* C4: disable() in any state other than DISABLED (the transient states
\* included, by the event's sources) leaves the state DISABLED, and in
\* DISABLED neither waitCRATimer nor commDelayTimer is live.
C4Theorem ==
  /\ [][(Disable /\ state # "DISABLED") => state' = "DISABLED"]_vars
  /\ [](\A s \in StateNames \ {"DISABLED"} :
          FireEvent([Machine EXCEPT !.state = s], "disable").state = "DISABLED")
  /\ [](state = "DISABLED"
          => (waitCRATimer # "live" /\ commDelayTimer # "live"))

\* C4 witness: disabled out of WAIT_DELAY, whose timer was canceled by it
C4Witness ==
  /\ state = "DISABLED"
  /\ ~connection
  /\ commDelayTimer = "cancelled"
  /\ waitCRATimer = "fired"

\* C5: WAIT_CRA is left for WAIT_DELAY, and WAIT_DELAY for WAIT_CRA, only
\* by the callback of the state's own timer: the timer the handler holds
\* has fired; a timer of an earlier cycle never causes the transition.
C5Claim ==
  [][/\ (state = "WAIT_CRA" /\ state' = "WAIT_DELAY")
          => waitCRATimer = "fired"
     /\ (state = "WAIT_DELAY" /\ state' = "WAIT_CRA")
          => commDelayTimer = "fired"]_vars

\* C6: on_connection_closed in NOT_COMMUNICATING, WAIT_CRA, WAIT_DELAY or
\* COMMUNICATING leaves the state NOT_COMMUNICATING.
C6Claim ==
  [][(/\ OnConnectionClosed
      /\ state \in {"NOT_COMMUNICATING", "WAIT_CRA", "WAIT_DELAY",
                    "COMMUNICATING"})
       => state' = "NOT_COMMUNICATING"]_vars

\* C7: on_connection_closed in COMMUNICATING leaves the state
\* NOT_COMMUNICATING, and a select in NOT_COMMUNICATING leads through
\* EQUIPMENT_INITIATED_CONNECT to WAIT_CRA, sending one S1F13 and starting
\* a new waitCRATimer.
C7Theorem ==
  [][/\ (OnConnectionClosed /\ state = "COMMUNICATING")
          => state' = "NOT_COMMUNICATING"
     /\ (OnHsmsSelect /\ state = "NOT_COMMUNICATING")
          => /\ ChangeState(Machine, Events["select"].dst).state
                  = "EQUIPMENT_INITIATED_CONNECT"
             /\ state' = "WAIT_CRA"
             /\ out' = <<S1F13Request(isHost)>>
             /\ waitCRATimer' = "live"]_vars

\* C7 witness: WAIT_CRA entered by a select (never WAIT_DELAY before) in
\* a session that has been COMMUNICATING, where it started a callback
C7Witness ==
  /\ state = "WAIT_CRA"
  /\ out = <<S1F13Request(isHost)>>
  /\ waitCRATimer = "live"
  /\ commDelayTimer = "none"
  /\ threads # {}

\* C8: in COMMUNICATING a packet without a registered callback is
\* answered with exactly one S9F5 carrying its system bytes when it
\* requires a response and with nothing otherwise; the state stays
\* COMMUNICATING and no thread is started.
C8Theorem ==
  [][state = "COMMUNICATING"
       => \A p \in Packets :
            (/\ CallbackIndex(p) \notin RegisteredCallbacks
             /\ OnHsmsPacketReceived(p))
              => /\ out' = IF p.requireResponse
                             THEN <<Msg("response", 9, 5, p.system, -1, "MHEAD")>>
                             ELSE <<>>
                 /\ state' = "COMMUNICATING"
                 /\ threads' = threads]_vars

\* C8 witness: an S9F5 was just sent in COMMUNICATING
C8Witness ==
  /\ state = "COMMUNICATING"
  /\ \E sys \in SystemIds : out = <<Msg("response", 9, 5, sys, -1, "MHEAD")>>

\* C9: waitfor_communicating returns True at once when the state is
\* COMMUNICATING and False when the wait times out; on every return the
\* caller's event has been removed, it is in waitEventList exactly once
\* while the call is in progress, and the list is empty when no call is.
C9Theorem ==
  /\ [](/\ \A w \in Waiters : InList(w) <=> wpc[w] # "idle"
        /\ Len(waitEventList) = Cardinality({w \in Waiters : wpc[w] # "idle"}))
  /\ [][\A w \in Waiters :
          /\ (WaitforCheck(w) /\ state = "COMMUNICATING")
               => (returned' = <<w, "True">> /\ wpc'[w] = "idle")
          /\ (wpc[w] = "waiting" /\ w \notin eventSet /\ wpc'[w] = "remove")
               => wres'[w] = "False"
          /\ (wpc[w] = "remove" /\ wpc'[w] = "idle")
               => returned' = <<w, wres[w]>>
          /\ (wpc[w] # "idle" /\ wpc'[w] = "idle")
               => Len(waitEventList') = Len(waitEventList) - 1]_vars

\* C9 witness: a call timed out, returned False, and left the list empty
C9Witness ==
  /\ \E w \in Waiters : returned = <<w, "False">>
  /\ waitEventList = <<>>
  /\ state # "COMMUNICATING"

\* C10: dispatching a packet with a registered callback in COMMUNICATING
\* returns at once with the callback in a thread of its own; while such
\* threads have not returned, further packets are still dispatched, each
\* thread can still run, and disable() and the timer callbacks still act.
C10Theorem ==
  /\ [][state = "COMMUNICATING"
          => \A p \in Packets :
               (/\ CallbackIndex(p) \in RegisteredCallbacks
                /\ OnHsmsPacketReceived(p))
                 => /\ rxPc' = "idle"
                    /\ [cb |-> CallbackIndex(p), system |-> p.system] \in threads'
                    /\ threads \subseteq threads'
                    /\ state' = "COMMUNICATING"]_vars
  /\ [](threads # {}
          => /\ rxPc \in {"idle", "fire13", "fire14"}
             /\ rxPc = "idle" => \A p \in Packets : ENABLED OnHsmsPacketReceived(p)
             /\ \A t \in threads : ENABLED RunCallbacks(t)
             /\ ENABLED Disable
             /\ craCallbacks > 0 => ENABLED OnWaitCraTimeout
             /\ delayCallbacks > 0 => ENABLED OnWaitCommDelayTimeout)

\* C10 witness: two callbacks of different functions have been started
\* and neither has returned; the transport thread is free
C10Witness ==
  /\ state = "COMMUNICATING"
  /\ rxPc = "idle"
  /\ \E t1, t2 \in threads : t1.cb # t2.cb

\* C11: a packet for which secs_decode yields no message never changes
\* the communication state and never causes a reply, in any state and
\* whatever its header carries: its delivery sends nothing, leaves no
\* event to fire and starts no handler (whose thread would reply).
C11Claim ==
  [][\A p \in Packets :
       (~p.decodable /\ OnHsmsPacketReceived(p))
         => /\ out' = <<>>
            /\ rxPc' = "idle"
            /\ threads' = threads]_vars

C14Claim ==
  [][/\ (/\ rxPc \in {"fire13", "fire14"}
         /\ rxPc' \notin {"fire13", "fire14"}
         /\ state' # state)
          => state = "WAIT_CRA"
     /\ state' \in {"COMMUNICATING", "DISABLED"} => commDelayTimer' # "live"
     /\ rxPc' = "release" => state' = "COMMUNICATING"]_vars

\* C15: on every entry into COMMUNICATING every caller blocked in
\* waitfor_communicating is released, for any number of callers and every
\* interleaving of the loop over waitEventList with the callers removing
\* their events: when the loop ends, the event of every caller that is
\* still in event.wait has been set.
C15Claim ==
  [][(ReleaseStep /\ rxPc' = "idle")
       => \A w \in Waiters : wpc[w] = "waiting" => w \in eventSet]_vars

TableTransitions ==
  UNION {{<<s, Events[ev].dst>> : s \in Events[ev].src} : ev \in DOMAIN Events}

TableSteps ==
  {t \in TableTransitions : t[2] \notin DOMAIN Autoforward}
    \cup {<<t[1], Autoforward[t[2]]>> :
            t \in {u \in TableTransitions : u[2] \in DOMAIN Autoforward}}

\* C17: after any sequence of enable, disable, select, deliveries, timer
\* expiries and connection-closed notifications the state is one of the
\* nine states, every change of state is a transition of the table (with
\* the autoforwards out of ENABLED and EQUIPMENT_INITIATED_CONNECT), and
\* neither transient state is the state once the operation has returned.
C17Theorem ==
  /\ [](state \in StateNames /\ Cardinality(StateNames) = 9)
  /\ [](state \notin {"ENABLED", "EQUIPMENT_INITIATED_CONNECT"})
  /\ [][state' # state => <<state, state'>> \in TableSteps]_vars
  /\ [][/\ (Enable /\ state = "DISABLED") => state' = "NOT_COMMUNICATING"
        /\ (OnHsmsSelect /\ state = "NOT_COMMUNICATING")
             => state' = "WAIT_CRA"]_vars

\* C17 witness: COMMUNICATING reached in the second handshake attempt,
\* after WAIT_CRA, WAIT_DELAY and WAIT_CRA again
C17Witness ==
  /\ state = "COMMUNICATING"
  /\ commDelayTimer = "fired"
  /\ waitCRATimer = "cancelled"
  /\ out = <<HandlerCommunicatingEvent>>

\* C18: the transition to COMMUNICATING does not depend on the accept or
\* reject code: in WAIT_CRA an S1F13 leads to COMMUNICATING whatever
\* on_commack_requested returned, and an S1F14 whatever COMMACK it
\* carries; in both cases handler_communicating is fired and the callers
\* blocked in waitfor_communicating are released (none of them times out
\* once the entry action of COMMUNICATING has run).
C18Claim ==
  [][/\ \A p \in Packets :
          (/\ state = "WAIT_CRA"
           /\ p.stream = 1
           /\ p.function \in {13, 14}
           /\ OnHsmsPacketReceived(p))
            => rxPc' = IF p.function = 13 THEN "fire13" ELSE "fire14"
     /\ ((FireS1F13Received \/ FireS1F14Received) /\ state = "WAIT_CRA")
          => /\ state' = "COMMUNICATING"
             /\ out' = <<HandlerCommunicatingEvent>>
             /\ rxPc' = "release" <=> waitEventList # <<>>
     /\ \A w \in Waiters :
          ~(WaitforTimeout(w) /\ state = "COMMUNICATING" /\ rxPc = "idle")]_vars

\* C19: an event fired outside its source states leaves the state and
\* both timers unchanged: enable() outside DISABLED, disable() in
\* DISABLED, select outside NOT_COMMUNICATING and on_connection_closed
\* outside COMMUNICATING change nothing in the state machine; enable()
\* and disable() have called connection.enable() / connection.disable().
C19Theorem ==
  /\ [][/\ (Enable /\ state # "DISABLED")
             => (UNCHANGED <<state, waitCRATimer, commDelayTimer>>
                 /\ connection')
        /\ (Disable /\ state = "DISABLED")
             => (UNCHANGED <<state, waitCRATimer, commDelayTimer>>
                 /\ ~connection')
        /\ (OnHsmsSelect /\ state # "NOT_COMMUNICATING")
             => UNCHANGED <<state, waitCRATimer, commDelayTimer, rxPc>>
        /\ (OnConnectionClosed /\ state # "COMMUNICATING")
             => UNCHANGED <<state, waitCRATimer, commDelayTimer, rxPc>>]_vars
  /\ [](\A ev \in DOMAIN Events :
          \A s \in StateNames \ Events[ev].src :
            LET m == FireEvent([Machine EXCEPT !.state = s], ev)
            IN /\ m.state = s
               /\ m.cra = waitCRATimer
               /\ m.delay = commDelayTimer)

\* C19 witness: enable() was called in WAIT_CRA: the event was refused,
\* the timer is still running
C19Witness ==
  /\ state = "WAIT_CRA"
  /\ waitCRATimer = "live"
  /\ connection
  /\ out = <<EventRefused("enable")>>

\* C20: HOST_INITIATED_CONNECT and WAIT_CR_FROM_HOST are never reached (no
\* event has either as destination) and messagereceived is never fired
\* (WAIT_DELAY is left for WAIT_CRA only by the callback of the delay
\* timer); in DISABLED and NOT_COMMUNICATING every packet leaves the state
\* unchanged, sends no reply and starts no handler thread.
C20Theorem ==
  /\ [](/\ state \notin {"HOST_INITIATED_CONNECT", "WAIT_CR_FROM_HOST"}
        /\ \A ev \in DOMAIN Events :
             Events[ev].dst \notin {"HOST_INITIATED_CONNECT",
                                    "WAIT_CR_FROM_HOST"}
        /\ \A i \in 1..Len(out) : out[i] # EventRefused("messagereceived"))
  /\ [][/\ (state = "WAIT_DELAY" /\ state' = "WAIT_CRA")
             => (OnWaitCommDelayTimeout /\ delayCallbacks' = delayCallbacks - 1)
        /\ (/\ state \in {"DISABLED", "NOT_COMMUNICATING"}
            /\ \E p \in Packets : OnHsmsPacketReceived(p))
             => /\ state' = state
                /\ out' = <<>>
                /\ rxPc' = "idle"
                /\ threads' = threads]_vars

\* C20 witness: NOT_COMMUNICATING after the connection was lost in
\* COMMUNICATING, where packets had started handler threads; packets
\* delivered now start none and are not answered
C20Witness ==
  /\ state = "NOT_COMMUNICATING"
  /\ connection
  /\ rxPc = "idle"
  /\ out = <<>>
  /\ threads # {}

====
